---- MODULE Spec2Model ----
(***************************************************************************)
(* Model of scripts/step2-generate-cards.py: subtitle parsing, merging of  *)
(* adjacent primary (IT) segments, monotonic alignment of the secondary    *)
(* (DE) track, chapter windowing, and the phrase / word card builders.     *)
(*                                                                         *)
(* Texts are sequences of characters; a character is a one-character       *)
(* string, or the code point name ("U+266A") of a non-ASCII character.     *)
(* Times are the program's IEEE-754 doubles, held exactly (see Add3).      *)
(***************************************************************************)
EXTENDS Integers, Sequences, FiniteSets, TLC

VARIABLES
    pc,                     \* position of the run
    args,                   \* the parsed command line (main)
    passes,                 \* a subtitle text and its successive cleanings
    blocks, entries, bi,    \* parse_srt: the document's blocks, the result, the loop position
    it_cues, de_cues,       \* the timing lines and texts the two documents hold
    it_entries, de_entries, \* main / build_phrase_cards: the two tracks
    merged, current, mi,    \* merge_adjacent_entries: result, running entry, loop position
    cards, de_index, idx,   \* build_phrase_cards: result, cursor, loop position
    chapter_token_counts, chapter_examples, wi, words  \* build_word_cards

vars == <<pc, args, passes, blocks, entries, bi, it_cues, de_cues, it_entries,
          de_entries, merged, current, mi, cards, de_index, idx,
          chapter_token_counts, chapter_examples, wi, words>>

Range(s) == {s[k] : k \in 1..Len(s)}

(***************************************************************************)
(* Characters                                                              *)
(***************************************************************************)
Note == "U+266A"            \* the musical-note glyph
CurlyApostrophe == "U+2019"
Whitespace == {" ", "\t"}

LowerAlpha == <<"a","b","c","d","e","f","g","h","i","j","k","l","m","n","o","p","q",
                "r","s","t","u","v","w","x","y","z",
                "U+00E0","U+00E8","U+00E9","U+00EC","U+00F2","U+00F3","U+00F9">>
UpperAlpha == <<"A","B","C","D","E","F","G","H","I","J","K","L","M","N","O","P","Q",
                "R","S","T","U","V","W","X","Y","Z",
                "U+00C0","U+00C8","U+00C9","U+00CC","U+00D2","U+00D3","U+00D9">>

\* str.lower() of one character
LowerChar(c) ==
    IF c \in Range(UpperAlpha)
    THEN LowerAlpha[CHOOSE k \in 1..Len(UpperAlpha) : UpperAlpha[k] = c]
    ELSE c

\* a character TOKEN_RE's class [a-z...'] matches under re.IGNORECASE
IsTokenChar(c) == c \in Range(LowerAlpha) \cup Range(UpperAlpha) \cup {"'"}

(***************************************************************************)
(* Doubles.  Every double the program computes from "HH:MM:SS,mmm" stamps  *)
(* and millisecond options is a multiple of 2^-63 below 2^21; it is held   *)
(* as the three 28-bit limbs <<high, middle, low>> of value * 2^63, and    *)
(* every operation rounds to 53 significant bits, ties to even.            *)
(***************************************************************************)
LimbBase == 2^28

Add3(a, b) ==
    LET l == a[3] + b[3]
        m == a[2] + b[2] + (l \div LimbBase)
        h == a[1] + b[1] + (m \div LimbBase)
    IN  <<h, m % LimbBase, l % LimbBase>>

\* a - b for a >= b
Sub3(a, b) ==
    LET l == a[3] - b[3]
        bl == IF l < 0 THEN 1 ELSE 0
        m == a[2] - b[2] - bl
        bm == IF m < 0 THEN 1 ELSE 0
    IN  <<a[1] - b[1] - bm, m + bm * LimbBase, l + bl * LimbBase>>

Less3(a, b) ==
    \/ a[1] < b[1]
    \/ a[1] = b[1] /\ a[2] < b[2]
    \/ a[1] = b[1] /\ a[2] = b[2] /\ a[3] < b[3]

Leq3(a, b) == ~Less3(b, a)

BitLenInt(v) == CHOOSE n \in 0..28 : v < 2^n /\ (n = 0 \/ v >= 2^(n-1))

BitLen3(a) ==
    IF a[1] > 0 THEN 56 + BitLenInt(a[1])
    ELSE IF a[2] > 0 THEN 28 + BitLenInt(a[2])
    ELSE BitLenInt(a[3])

Pow2_3(s) ==
    IF s < 28 THEN <<0, 0, 2^s>>
    ELSE IF s < 56 THEN <<0, 2^(s-28), 0>>
    ELSE <<2^(s-56), 0, 0>>

\* a mod 2^s
Low3(a, s) ==
    IF s <= 28 THEN <<0, 0, a[3] % (2^s)>>
    ELSE IF s <= 56 THEN <<0, a[2] % (2^(s-28)), a[3]>>
    ELSE <<a[1] % (2^(s-56)), a[2], a[3]>>

Bit3(a, s) == (a[3 - (s \div 28)] \div (2^(s % 28))) % 2

\* the double nearest to a (plus a fraction of 2^-63 when sticky), ties to even
Round53(a, sticky) ==
    LET L == BitLen3(a) IN
    IF L <= 53 THEN a
    ELSE LET s == L - 53
             low == Low3(a, s)
             half == Pow2_3(s - 1)
             up == Less3(half, low) \/ (low = half /\ (sticky \/ Bit3(a, s) = 1))
             trunc == Sub3(a, low)
         IN  IF up THEN Add3(trunc, Pow2_3(s)) ELSE trunc

\* k / 1000.0 for an int k >= 0: the quotient's integer part, then 63 binary
\* digits of its fraction by long division, 21 at a time, then rounded
FDiv1000(k) ==
    LET r0 == k % 1000
        d1 == (r0 * 2^21) \div 1000
        r1 == (r0 * 2^21) % 1000
        d2 == (r1 * 2^21) \div 1000
        r2 == (r1 * 2^21) % 1000
        d3 == (r2 * 2^21) \div 1000
        r3 == (r2 * 2^21) % 1000
        quotient == << (k \div 1000) * 2^7 + (d1 \div 2^14),
                       (d1 % 2^14) * 2^14 + (d2 \div 2^7),
                       (d2 % 2^7) * 2^21 + d3 >>
    IN  Round53(quotient, r3 # 0)

\* float(n) for an int n >= 0
FromInt(n) == <<n * 128, 0, 0>>

FZero == <<0, 0, 0>>

FAdd(a, b) == Round53(Add3(a, b), FALSE)

\* a - b, which may be negative: sign and magnitude
FSub(a, b) ==
    IF Less3(a, b) THEN [neg |-> TRUE, mag |-> Round53(Sub3(b, a), FALSE)]
    ELSE [neg |-> FALSE, mag |-> Round53(Sub3(a, b), FALSE)]

\* max(0.0, s) of a signed value
ClampZero(s) == IF s.neg THEN FZero ELSE s.mag

FMax(a, b) == IF Less3(a, b) THEN b ELSE a

\* math.floor of a double >= 0
Floor3(a) == a[1] \div 128

\* max(0.0, ms / 1000.0) of an int option
OptionSeconds(ms) == IF ms <= 0 THEN FZero ELSE FDiv1000(ms)

(***************************************************************************)
(* Time stamps: the twelve characters "HH:MM:SS,mmm"                       *)
(***************************************************************************)
Digits == <<"0", "1", "2", "3", "4", "5", "6", "7", "8", "9">>
IsDigit(c) == c \in Range(Digits)
DigitValue(c) == (CHOOSE k \in 1..Len(Digits) : Digits[k] = c) - 1

\* int(s) of a string of digits
RECURSIVE IntOf(_)
IntOf(s) == IF s = <<>> THEN 0 ELSE 10 * IntOf(SubSeq(s, 1, Len(s) - 1)) + DigitValue(s[Len(s)])

t2s(time_string) ==
    LET hh == IntOf(SubSeq(time_string, 1, 2))
        mm == IntOf(SubSeq(time_string, 4, 5))
        ss == IntOf(SubSeq(time_string, 7, 8))
        ms == IntOf(SubSeq(time_string, 10, 12))
    IN  FAdd(FromInt(hh * 3600 + mm * 60 + ss), FDiv1000(ms))

\* the decimal digits of n >= 0
RECURSIVE Decimal(_)
Decimal(n) == IF n < 10 THEN <<Digits[n + 1]>> ELSE Decimal(n \div 10) \o <<Digits[(n % 10) + 1]>>

\* format(n, "0<width>d")
RECURSIVE ZeroPad(_, _)
ZeroPad(s, width) == IF Len(s) >= width THEN s ELSE ZeroPad(<<"0">> \o s, width)

\* the stamp that reads ms milliseconds, as a subtitle file writes it
StampText(ms) ==
    ZeroPad(Decimal(ms \div 3600000), 2) \o <<":">> \o
    ZeroPad(Decimal((ms \div 60000) % 60), 2) \o <<":">> \o
    ZeroPad(Decimal((ms \div 1000) % 60), 2) \o <<",">> \o
    ZeroPad(Decimal(ms % 1000), 3)

hms(seconds) ==
    LET s == Floor3(seconds)
        hh == s \div 3600
        mm == (s % 3600) \div 60
        ss == s % 60
    IN  ZeroPad(Decimal(hh), 2) \o <<":">> \o ZeroPad(Decimal(mm), 2) \o <<":">> \o
        ZeroPad(Decimal(ss), 2)

(***************************************************************************)
(* Text cleaning (parse_srt)                                               *)
(***************************************************************************)
\* first position >= from holding c, or 0
FirstAt(s, c, from) ==
    IF \E k \in from..Len(s) : s[k] = c
    THEN CHOOSE k \in from..Len(s) : s[k] = c /\ \A m \in from..(k-1) : s[m] # c
    ELSE 0

Least(S) == CHOOSE p \in S : \A q \in S : p <= q
Greatest(S) == CHOOSE p \in S : \A q \in S : p >= q

\* re.sub(open [^close]+ close, "", s), from position i on: up to the leftmost
\* match, then on from its end
RECURSIVE StripSpans(_, _, _, _)
StripSpans(s, open, close, i) ==
    LET starts == {p \in i..Len(s) : s[p] = open /\ FirstAt(s, close, p + 1) > p + 1} IN
    IF starts = {} THEN SubSeq(s, i, Len(s))
    ELSE LET p == Least(starts) IN
         SubSeq(s, i, p - 1) \o StripSpans(s, open, close, FirstAt(s, close, p + 1) + 1)

\* re.sub(r"\{\\.*?\}", "", s), from position i on
RECURSIVE StripOverrides(_, _)
StripOverrides(s, i) ==
    LET starts == {p \in i..(Len(s) - 1) :
                      s[p] = "{" /\ s[p + 1] = "\\" /\ FirstAt(s, "}", p + 2) > 0} IN
    IF starts = {} THEN SubSeq(s, i, Len(s))
    ELSE LET p == Least(starts) IN
         SubSeq(s, i, p - 1) \o StripOverrides(s, FirstAt(s, "}", p + 2) + 1)

\* s.replace(note, " ")
ReplaceNotes(s) == [k \in 1..Len(s) |-> IF s[k] = Note THEN " " ELSE s[k]]

\* re.sub(r"\s+", " ", s): a run of whitespace keeps one space, at its start
CollapseSpaces(s) ==
    SelectSeq([k \in 1..Len(s) |->
                  IF s[k] \notin Whitespace THEN s[k]
                  ELSE IF k > 1 /\ s[k - 1] \in Whitespace THEN "" ELSE " "],
              LAMBDA c : c # "")

LStrip(s) ==
    LET inked == {k \in 1..Len(s) : s[k] \notin Whitespace} IN
    IF inked = {} THEN <<>> ELSE SubSeq(s, Least(inked), Len(s))

RStrip(s) ==
    LET inked == {k \in 1..Len(s) : s[k] \notin Whitespace} IN
    IF inked = {} THEN <<>> ELSE SubSeq(s, 1, Greatest(inked))

Strip(s) == LStrip(RStrip(s))

CleanSubtitle(subtitle) ==
    LET s1 == StripSpans(subtitle, "<", ">", 1)
        s2 == StripOverrides(s1, 1)
        s3 == StripSpans(s2, "[", "]", 1)
        s4 == ReplaceNotes(s3)
    IN  Strip(CollapseSpaces(s4))

(***************************************************************************)
(* Values of the variables a run does not use                              *)
(***************************************************************************)
NoArgs == [max_minutes |-> 14, chapter_minutes |-> 7, min_word_length |-> 3,
           max_words_per_chapter |-> 80, merge_it_adjacent |-> FALSE,
           merge_it_gap_ms |-> 350, de_pad_ms |-> 250, de_max_lines |-> 4]

IdleClean == passes = <<>>
IdleParse == blocks = <<>> /\ entries = <<>> /\ bi = 0
IdleCues == it_cues = <<>> /\ de_cues = <<>>
IdleTracks == it_entries = <<>> /\ de_entries = <<>>
IdleMerge == merged = <<>> /\ current = <<>> /\ mi = 0
IdlePhrases == cards = <<>> /\ de_index = 0 /\ idx = 0
IdleWords == /\ chapter_token_counts = <<>> /\ chapter_examples = <<>>
             /\ wi = 0 /\ words = <<>>

(***************************************************************************)
(* Cleaning a text, and cleaning the result again                          *)
(***************************************************************************)
MaxRawLen == 6
RawChars == {"{", "\\", "}", "[", "]", "<", ">", " ", "a", Note}

InitClean ==
    /\ pc = "clean"
    /\ args = NoArgs
    /\ \E n \in 0..MaxRawLen : \E s \in [1..n -> RawChars] : passes = <<s>>
    /\ IdleParse /\ IdleCues /\ IdleTracks /\ IdleMerge /\ IdlePhrases /\ IdleWords

\* parse_srt's cleaning of a text, then of its own output
CleanPass ==
    /\ pc = "clean"
    /\ Len(passes) < 3
    /\ passes' = Append(passes, CleanSubtitle(passes[Len(passes)]))
    /\ UNCHANGED <<pc, args, blocks, entries, bi, it_cues, de_cues, it_entries,
                   de_entries, merged, current, mi, cards, de_index, idx,
                   chapter_token_counts, chapter_examples, wi, words>>

NextClean == CleanPass
SpecClean == InitClean /\ [][NextClean]_vars

\* C9: cleaning is idempotent: cleaning an already-cleaned text returns it unchanged.
CleanIdempotent == Len(passes) = 3 => passes[3] = passes[2]

(***************************************************************************)
(* parse_srt                                                               *)
(***************************************************************************)
Arrow == <<"-", "-", ">">>

\* "-->" in line
HasArrow(line) == \E p \in 1..(Len(line) - 2) : SubSeq(line, p, p + 2) = Arrow

\* \d{2}:\d{2}:\d{2},\d{3} at position p
StampAt(s, p) ==
    /\ p >= 1
    /\ p + 11 <= Len(s)
    /\ \A k \in {0, 1, 3, 4, 6, 7, 9, 10, 11} : IsDigit(s[p + k])
    /\ s[p + 2] = ":"
    /\ s[p + 5] = ":"
    /\ s[p + 8] = ","

\* the first position >= p that holds no whitespace (\s*)
SkipSpaces(s, p) == Least({q \in p..(Len(s) + 1) : q > Len(s) \/ s[q] \notin Whitespace})

\* TIME_RE matching at position p: the position of its second stamp, or 0
TimeMatchAt(s, p) ==
    IF ~StampAt(s, p) THEN 0
    ELSE LET a == SkipSpaces(s, p + 12) IN
         IF /\ a + 2 <= Len(s)
            /\ SubSeq(s, a, a + 2) = Arrow
            /\ StampAt(s, SkipSpaces(s, a + 3))
         THEN SkipSpaces(s, a + 3)
         ELSE 0

\* TIME_RE.search(line): <<group(1), group(2)>>, or <<>> when nothing matches
TimeSearch(line) ==
    LET hits == {p \in 1..Len(line) : TimeMatchAt(line, p) > 0} IN
    IF hits = {} THEN <<>>
    ELSE LET p == CHOOSE q \in hits : \A r \in hits : q <= r
             b == TimeMatchAt(line, p)
         IN  <<SubSeq(line, p, p + 11), SubSeq(line, b, b + 11)>>

\* sep.join(parts)
RECURSIVE JoinWith(_, _)
JoinWith(parts, sep) ==
    IF parts = <<>> THEN <<>>
    ELSE IF Len(parts) = 1 THEN parts[1]
    ELSE parts[1] \o sep \o JoinWith(Tail(parts), sep)

\* the entries (none or one) a block contributes
ParseBlockEntries(block) ==
    LET lines == SelectSeq([k \in 1..Len(block) |-> Strip(block[k])], LAMBDA l : l # <<>>) IN
    IF Len(lines) < 2 THEN <<>>
    ELSE LET first == HasArrow(lines[1])
             time_line == IF first THEN lines[1] ELSE lines[2]
             text_lines == IF first THEN Tail(lines) ELSE Tail(Tail(lines))
             match == TimeSearch(time_line)
         IN  IF match = <<>> THEN <<>>
             ELSE LET subtitle == CleanSubtitle(JoinWith(text_lines, <<" ">>)) IN
                  IF subtitle = <<>> THEN <<>>
                  ELSE <<[start |-> t2s(match[1]), end |-> t2s(match[2]),
                          text |-> subtitle]>>

\* one iteration of parse_srt's loop over the blocks
ParseBlock ==
    /\ pc = "parse"
    /\ bi < Len(blocks)
    /\ entries' = entries \o ParseBlockEntries(blocks[bi + 1])
    /\ bi' = bi + 1
    /\ UNCHANGED <<pc, args, passes, blocks, it_cues, de_cues, it_entries, de_entries,
                   merged, current, mi, cards, de_index, idx,
                   chapter_token_counts, chapter_examples, wi, words>>

ParseReturn ==
    /\ pc = "parse"
    /\ bi = Len(blocks)
    /\ pc' = "parsed"
    /\ UNCHANGED <<args, passes, blocks, entries, bi, it_cues, de_cues, it_entries,
                   de_entries, merged, current, mi, cards, de_index, idx,
                   chapter_token_counts, chapter_examples, wi, words>>

\* The documents parsed: blocks of lines
MaxBlocks == 2
TimeLine(startMs, endMs) == StampText(startMs) \o <<" ">> \o Arrow \o <<" ">> \o StampText(endMs)
IndexLine == <<"1">>
BrokenTimeLine == <<"1", " ">> \o Arrow \o <<" ", "2">>
CiaoLine == <<"C", "i", "a", "o">>
TimePairs == {<<1000, 2500>>, <<2500, 1000>>, <<1000, 1000>>, <<3599999, 3600000>>}
TextLineChoices ==
    { <<>>,
      <<CiaoLine>>,
      <<<<"<", "i", ">", "C", "i", "a", "o", "<", "/", "i", ">">>, <<" ", "m", "o", "n", "d", "o", "\t">>>>,
      <<<<"[", "m", "u", "s", "i", "c", "a", "]">>>>,
      <<<<Note, " ", "l", "a", " ", "{", "\\", "a", "n", "8", "}", "l", "a", " ", Note>>>> }
SampleBlocks ==
    {<<IndexLine, TimeLine(tp[1], tp[2])>> \o txt : tp \in TimePairs, txt \in TextLineChoices}
    \cup {<<TimeLine(tp[1], tp[2])>> \o txt : tp \in TimePairs, txt \in TextLineChoices}
    \cup {<<IndexLine, BrokenTimeLine, CiaoLine>>, <<IndexLine, CiaoLine>>, <<CiaoLine>>}

InitParse ==
    /\ pc = "parse"
    /\ args = NoArgs
    /\ \E n \in 1..MaxBlocks : blocks \in [1..n -> SampleBlocks]
    /\ entries = <<>>
    /\ bi = 0
    /\ IdleClean /\ IdleCues /\ IdleTracks /\ IdleMerge /\ IdlePhrases /\ IdleWords

NextParse == ParseBlock \/ ParseReturn
SpecParse == InitParse /\ [][NextParse]_vars

\* C5: every Segment the parser produces has end >= start (a block with a
\* negative duration is dropped).
ParsedEndNotBeforeStart == \A k \in 1..Len(entries) : Leq3(entries[k].start, entries[k].end)

(***************************************************************************)
(* main: the window filter                                                 *)
(***************************************************************************)
\* a filter that lets the segment starting at the window's end through
InWindowInclusive(e, max_minutes) == Leq3(e.start, FromInt(max_minutes * 60))

\* [e for e in parse_srt(path) if e["start"] < max_seconds]
InWindow(e, max_minutes) == Less3(e.start, FromInt(max_minutes * 60))

WindowFilter(track, max_minutes) == SelectSeq(track, LAMBDA e : InWindow(e, max_minutes))

Filter ==
    /\ pc = "filter"
    /\ it_entries' = WindowFilter(it_entries, args.max_minutes)
    /\ de_entries' = WindowFilter(de_entries, args.max_minutes)
    /\ pc' = "merge"
    /\ UNCHANGED <<args, passes, blocks, entries, bi, it_cues, de_cues, merged, current,
                   mi, cards, de_index, idx, chapter_token_counts, chapter_examples,
                   wi, words>>

(***************************************************************************)
(* merge_adjacent_entries                                                  *)
(***************************************************************************)
\* gap <= merge_gap_seconds, for the signed gap
GapWithin(gap, merge_gap_seconds) == gap.neg \/ Leq3(gap.mag, merge_gap_seconds)

\* the running entry with nxt fused into it
Fuse(cur, nxt) ==
    [cur EXCEPT !.end = FMax(cur.end, nxt.end),
                !.text = Strip(RStrip(cur.text) \o <<" ">> \o LStrip(nxt.text))]

\* main: merging is off
MergeSkip ==
    /\ pc = "merge"
    /\ ~args.merge_it_adjacent
    /\ pc' = "phrases"
    /\ UNCHANGED <<args, passes, blocks, entries, bi, it_cues, de_cues, it_entries,
                   de_entries, merged, current, mi, cards, de_index, idx,
                   chapter_token_counts, chapter_examples, wi, words>>

\* the call, up to the loop: an empty track returns at once
MergeBegin ==
    /\ pc = "merge"
    /\ args.merge_it_adjacent
    /\ IF it_entries = <<>>
       THEN pc' = "phrases" /\ UNCHANGED <<merged, current, mi>>
       ELSE pc' = "merging" /\ merged' = <<>> /\ current' = it_entries[1] /\ mi' = 1
    /\ UNCHANGED <<args, passes, blocks, entries, bi, it_cues, de_cues, it_entries,
                   de_entries, cards, de_index, idx, chapter_token_counts,
                   chapter_examples, wi, words>>

\* one iteration of the loop over entries[1:]
MergeStep ==
    /\ pc = "merging"
    /\ mi < Len(it_entries)
    /\ LET nxt == it_entries[mi + 1]
           gap == FSub(nxt.start, current.end)
       IN  IF GapWithin(gap, OptionSeconds(args.merge_it_gap_ms))
           THEN current' = Fuse(current, nxt) /\ merged' = merged
           ELSE merged' = Append(merged, current) /\ current' = nxt
    /\ mi' = mi + 1
    /\ UNCHANGED <<pc, args, passes, blocks, entries, bi, it_cues, de_cues, it_entries,
                   de_entries, cards, de_index, idx, chapter_token_counts,
                   chapter_examples, wi, words>>

\* the last append, and main's assignment of the result
MergeEnd ==
    /\ pc = "merging"
    /\ mi = Len(it_entries)
    /\ it_entries' = Append(merged, current)
    /\ pc' = "phrases"
    /\ UNCHANGED <<args, passes, blocks, entries, bi, it_cues, de_cues, de_entries,
                   merged, current, mi, cards, de_index, idx, chapter_token_counts,
                   chapter_examples, wi, words>>

(***************************************************************************)
(* chapter_id, collect_de_range_monotonic, build_phrase_cards              *)
(***************************************************************************)
\* int(seconds // (chapter_minutes * 60)) + 1; the floor division of a double
\* >= 0 by a positive int is that of its integer part
chapter_id(seconds, chapter_minutes) == (Floor3(seconds) \div (chapter_minutes * 60)) + 1

\* the first while loop: from index i (counted from 0) past the entries that
\* end before the window starts
AdvanceIndex(de, i, window_start) ==
    Least({k \in i..Len(de) : k = Len(de) \/ ~Less3(de[k + 1].end, window_start)})

\* d["end"] >= window_start and d["start"] <= window_end
OverlapsWindow(d, window_start, window_end) ==
    Leq3(window_start, d.end) /\ Leq3(d.start, window_end)

\* a scan that forgets the lower bound of the window
RECURSIVE ScanRangeNoLowerBound(_, _, _, _, _, _)
ScanRangeNoLowerBound(de, j, texts, window_start, window_end, max_lines) ==
    IF j < Len(de) /\ Len(texts) < max_lines
    THEN LET d == de[j + 1] IN
         IF Less3(window_end, d.start)
         THEN [j |-> j, texts |-> texts]
         ELSE ScanRangeNoLowerBound(de, j + 1, Append(texts, d.text),
                                    window_start, window_end, max_lines)
    ELSE [j |-> j, texts |-> texts]

\* the second while loop, from index j with the texts collected so far
RECURSIVE ScanRange(_, _, _, _, _, _)
ScanRange(de, j, texts, window_start, window_end, max_lines) ==
    IF j < Len(de) /\ Len(texts) < max_lines
    THEN LET d == de[j + 1] IN
         IF Less3(window_end, d.start)
         THEN [j |-> j, texts |-> texts]
         ELSE ScanRange(de, j + 1,
                        IF OverlapsWindow(d, window_start, window_end)
                        THEN Append(texts, d.text) ELSE texts,
                        window_start, window_end, max_lines)
    ELSE [j |-> j, texts |-> texts]

\* a cursor that takes j-1 without the max
NextIndexUnclamped(start_index, j) == j - 1

\* a cursor that steps past the last segment examined
NextIndexConsuming(start_index, j) == IF j > start_index THEN j ELSE start_index

\* max(start_index, j-1 if j > start_index else start_index)
NextIndex(start_index, j) ==
    LET kept == IF j > start_index THEN j - 1 ELSE start_index
    IN  IF kept > start_index THEN kept ELSE start_index

\* the texts without immediate repetitions
Compact(texts) ==
    SelectSeq([k \in 1..Len(texts) |->
                  IF k > 1 /\ texts[k - 1] = texts[k] THEN <<"">> ELSE texts[k]],
              LAMBDA t : t # <<"">>)

collect_de_range_monotonic(it_start, it_end, de, start_index, pad_seconds, max_lines) ==
    IF de = <<>> THEN [text |-> <<>>, next_index |-> start_index]
    ELSE LET window_start == ClampZero(FSub(it_start, pad_seconds))
             window_end == FAdd(it_end, pad_seconds)
             i == AdvanceIndex(de, start_index, window_start)
             scan == ScanRange(de, i, <<>>, window_start, window_end, max_lines)
         IN  [text |-> Strip(JoinWith(Compact(scan.texts), <<" ">>)),
              next_index |-> NextIndex(start_index, scan.j)]

PhraseCard(n, it, de_text, chapter_minutes) ==
    [id |-> <<"p", "_">> \o ZeroPad(Decimal(n), 4),
     type |-> "phrase",
     chapterId |-> chapter_id(it.start, chapter_minutes),
     start |-> it.start,
     end |-> it.end,
     timestamp |-> hms(it.start),
     it |-> it.text,
     de |-> de_text,
     source |-> [it |-> "srt", de |-> "srt-range-monotonic"]]

\* an iteration that makes no card when nothing was collected
PhraseStepSkippingEmpty ==
    /\ pc = "phrases"
    /\ idx < Len(it_entries)
    /\ LET it == it_entries[idx + 1]
           got == collect_de_range_monotonic(it.start, it.end, de_entries, de_index,
                                             OptionSeconds(args.de_pad_ms),
                                             args.de_max_lines)
       IN  /\ cards' = IF got.text = <<>> THEN cards
                       ELSE Append(cards, PhraseCard(idx + 1, it, got.text,
                                                     args.chapter_minutes))
           /\ de_index' = got.next_index
    /\ idx' = idx + 1
    /\ UNCHANGED <<pc, args, passes, blocks, entries, bi, it_cues, de_cues, it_entries,
                   de_entries, merged, current, mi, chapter_token_counts,
                   chapter_examples, wi, words>>

\* one iteration of build_phrase_cards' loop
PhraseStep ==
    /\ pc = "phrases"
    /\ idx < Len(it_entries)
    /\ LET it == it_entries[idx + 1]
           got == collect_de_range_monotonic(it.start, it.end, de_entries, de_index,
                                             OptionSeconds(args.de_pad_ms),
                                             args.de_max_lines)
       IN  /\ cards' = Append(cards, PhraseCard(idx + 1, it, got.text, args.chapter_minutes))
           /\ de_index' = got.next_index
    /\ idx' = idx + 1
    /\ UNCHANGED <<pc, args, passes, blocks, entries, bi, it_cues, de_cues, it_entries,
                   de_entries, merged, current, mi, chapter_token_counts,
                   chapter_examples, wi, words>>

PhraseReturn ==
    /\ pc = "phrases"
    /\ idx = Len(it_entries)
    /\ pc' = "words"
    /\ UNCHANGED <<args, passes, blocks, entries, bi, it_cues, de_cues, it_entries,
                   de_entries, merged, current, mi, cards, de_index, idx,
                   chapter_token_counts, chapter_examples, wi, words>>

\* the entries parse_srt returns for a document holding the cues
EntryOf(cue) ==
    [start |-> t2s(StampText(cue.start)), end |-> t2s(StampText(cue.end)), text |-> cue.text]
EntriesOf(cues) == [k \in 1..Len(cues) |-> EntryOf(cues[k])]

(***************************************************************************)
(* Runs of merge_adjacent_entries                                          *)
(***************************************************************************)
MaxIt == 2
MaxDe == 2

Cue(startMs, endMs, text) == [start |-> startMs, end |-> endMs, text |-> text]

\* primary cues whose gaps meet the threshold exactly (350 ms), exceed it by a
\* millisecond, or are negative
MergeCues ==
    { Cue(0, 36, <<"a">>), Cue(386, 900, <<"b">>), Cue(1250, 1500, <<"c">>),
      Cue(1851, 2000, <<"d">>), Cue(2350, 2400, <<"e">>) }
MergeGaps == {0, 350}

InitMerge ==
    /\ pc = "merge"
    /\ \E gap \in MergeGaps :
           args = [NoArgs EXCEPT !.merge_it_adjacent = TRUE, !.merge_it_gap_ms = gap]
    /\ \E n \in 0..(MaxIt + 1) : it_cues \in [1..n -> MergeCues]
    /\ it_entries = EntriesOf(it_cues)
    /\ de_cues = <<>>
    /\ de_entries = <<>>
    /\ IdleClean /\ IdleParse /\ IdleMerge /\ IdlePhrases /\ IdleWords

NextMerge == MergeBegin \/ MergeStep \/ MergeEnd
SpecMerge == InitMerge /\ [][NextMerge]_vars

(***************************************************************************)
(* Runs of build_phrase_cards                                              *)
(***************************************************************************)
AlignItCues ==
    { Cue(0, 1000, <<"c", "i", "a", "o", " ", "m", "o", "n", "d", "o">>), Cue(1200, 2000, <<"c", "i", "a", "o", " ", "d", "i", " ", "n", "u", "o", "v", "o">>),
      Cue(5000, 6000, <<"a", "n", "c", "o", "r", "a">>) }
AlignDeCues ==
    { Cue(100, 1900, <<"h", "a", "l", "l", "o", " ", "w", "e", "l", "t">>), Cue(200, 900, <<"h", "a", "l", "l", "o">>),
      Cue(2250, 4750, <<"n", "o", "c", "h">>) }
AlignPads == {0, 250}
AlignMaxLines == {0, 1, 4}

InitAlign ==
    /\ pc = "phrases"
    /\ \E pad \in AlignPads, lines \in AlignMaxLines :
           args = [NoArgs EXCEPT !.de_pad_ms = pad, !.de_max_lines = lines]
    /\ \E n \in 0..MaxIt : it_cues \in [1..n -> AlignItCues]
    /\ \E n \in 0..MaxDe : de_cues \in [1..n -> AlignDeCues]
    /\ it_entries = EntriesOf(it_cues)
    /\ de_entries = EntriesOf(de_cues)
    /\ IdleClean /\ IdleParse /\ IdleMerge /\ IdlePhrases /\ IdleWords

NextAlign == PhraseStep \/ PhraseReturn
SpecAlign == InitAlign /\ [][NextAlign]_vars

(***************************************************************************)
(* Properties of merge_adjacent_entries                                    *)
(***************************************************************************)
\* the greedy merge of the cues from position k on, with the running cue cur,
\* in exact millisecond arithmetic
RECURSIVE GreedyMerge(_, _, _, _)
GreedyMerge(cues, k, cur, thresholdMs) ==
    IF k > Len(cues) THEN <<cur>>
    ELSE IF cues[k].start - cur.end <= thresholdMs
         THEN GreedyMerge(cues, k + 1,
                          Cue(cur.start,
                              IF cues[k].end > cur.end THEN cues[k].end ELSE cur.end,
                              cur.text \o <<" ">> \o cues[k].text),
                          thresholdMs)
         ELSE <<cur>> \o GreedyMerge(cues, k + 1, cues[k], thresholdMs)

MergedCues(cues, thresholdMs) ==
    IF cues = <<>> THEN <<>> ELSE GreedyMerge(cues, 2, cues[1], thresholdMs)

\* C6: the merge is left-to-right greedy, fusing the next segment if and only if
\* next.start minus the running end is <= the threshold (so a gap equal to the
\* threshold merges, a gap one millisecond larger does not); the fused segment
\* keeps the running start, the larger end, and the texts joined by one space.
MergeFusesWithinThreshold ==
    pc = "phrases" => it_entries = EntriesOf(MergedCues(it_cues, args.merge_it_gap_ms))

(***************************************************************************)
(* Properties of build_phrase_cards                                        *)
(***************************************************************************)
\* the padded window of a primary cue, in exact milliseconds
WindowStartMs(p, padMs) == IF p.start - padMs > 0 THEN p.start - padMs ELSE 0
WindowEndMs(p, padMs) == p.end + padMs
OverlapsMs(d, p, padMs) == d.end >= WindowStartMs(p, padMs) /\ d.start <= WindowEndMs(p, padMs)

\* the members of a set of indexes, ascending
Ascending(S) == [m \in 1..Cardinality(S) |-> CHOOSE x \in S : Cardinality({y \in S : y < x}) = m - 1]

\* the secondary text that the segments with the indexes of S give, in track order
TextOf(S) ==
    LET q == Ascending(S)
    IN  Strip(JoinWith(Compact([m \in 1..Len(q) |-> de_entries[q[m]].text]), <<" ">>))

\* C1: the secondary cursor never decreases from one primary segment to the next.
CursorNeverDecreases == [][de_index' >= de_index]_vars

\* two primary windows overlap the same secondary segment, and the cursor has moved
CursorMovedOnSharedSegment ==
    /\ idx = 2
    /\ de_index >= 1
    /\ \E s \in 1..Len(de_cues) :
           /\ OverlapsMs(de_cues[s], it_cues[1], args.de_pad_ms)
           /\ OverlapsMs(de_cues[s], it_cues[2], args.de_pad_ms)

\* the scenario of the specification's example
ExampleScenario ==
    /\ it_cues = <<Cue(0, 1000, <<"c", "i", "a", "o", " ", "m", "o", "n", "d", "o">>),
                   Cue(1200, 2000, <<"c", "i", "a", "o", " ", "d", "i", " ", "n", "u", "o", "v", "o">>)>>
    /\ de_cues = <<Cue(100, 1900, <<"h", "a", "l", "l", "o", " ", "w", "e", "l", "t">>)>>
    /\ args.de_pad_ms = 250
    /\ args.de_max_lines = 4

HalloWelt == <<"h", "a", "l", "l", "o", " ", "w", "e", "l", "t">>

\* C2, as stated: a secondary segment collected for one primary segment is
\* consumed and never collected for a later one; in the example card 1 has
\* "hallo welt" and card 2 has the empty text.
ExampleConsumedOnce ==
    (ExampleScenario /\ pc = "words") => (cards[1].de = HalloWelt /\ cards[2].de = <<>>)

\* the segment under the cursor opens the next card's text when it overlaps the
\* next window as the code computes it, and no segment before the cursor is
\* collected again
CursorSegmentCollectedAgain ==
    (idx' = idx + 1 /\ de_index < Len(de_entries)) =>
        LET it == it_entries[idx + 1]
            pad == OptionSeconds(args.de_pad_ms)
            under == de_entries[de_index + 1]
            text == cards'[idx'].de
        IN  /\ (/\ args.de_max_lines >= 1
                /\ OverlapsWindow(under, ClampZero(FSub(it.start, pad)), FAdd(it.end, pad)))
               => (Len(text) >= Len(under.text) /\ SubSeq(text, 1, Len(under.text)) = under.text)
            /\ \E S \in SUBSET ((de_index + 1)..Len(de_entries)) : text = TextOf(S)

\* C2, amended: the segment the cursor rests on is not consumed: it is
\* collected again for a later primary segment whose window it overlaps, and
\* only segments before the cursor are never collected again; in the example
\* both cards have "hallo welt".
CursorSegmentReused ==
    /\ [][CursorSegmentCollectedAgain]_vars
    /\ []((ExampleScenario /\ pc = "words") =>
             (cards[1].de = HalloWelt /\ cards[2].de = HalloWelt))

ExampleBuilt == ExampleScenario /\ pc = "words" /\ Len(cards) = 2

\* C3: exactly one phrase card per primary segment, in primary order, carrying
\* its start, end, text and the id p_<k>; a primary segment that no secondary
\* segment overlaps (or an empty secondary track) gives an empty secondary text.
OneCardPerPrimary ==
    /\ Len(cards) = idx
    /\ idx <= Len(it_entries)
    /\ pc = "words" => Len(cards) = Len(it_entries)
    /\ \A k \in 1..Len(cards) :
           /\ cards[k].start = it_entries[k].start
           /\ cards[k].end = it_entries[k].end
           /\ cards[k].it = it_entries[k].text
           /\ k <= 9 => cards[k].id = <<"p", "_", "0", "0", "0", Digits[k + 1]>>
           /\ (\A s \in 1..Len(de_cues) : ~OverlapsMs(de_cues[s], it_cues[k], args.de_pad_ms))
              => cards[k].de = <<>>

\* all cards are built, one for a primary segment that no segment of a
\* non-empty secondary track overlaps
CardWithoutSecondary ==
    /\ pc = "words"
    /\ Len(cards) = 2
    /\ de_entries # <<>>
    /\ \E k \in 1..2 :
           /\ cards[k].de = <<>>
           /\ \A s \in 1..Len(de_cues) : ~OverlapsMs(de_cues[s], it_cues[k], args.de_pad_ms)

\* C4: the secondary text of a pair is made of at most max_lines secondary
\* segments, in track order, each overlapping the primary's padded window.
CollectedOverlapInOrder ==
    \A k \in 1..Len(cards) :
        \E S \in SUBSET {s \in 1..Len(de_cues) :
                            OverlapsMs(de_cues[s], it_cues[k], args.de_pad_ms)} :
            /\ Cardinality(S) <= args.de_max_lines
            /\ cards[k].de = TextOf(S)

HalloWeltHallo == <<"h", "a", "l", "l", "o", " ", "w", "e", "l", "t", " ", "h", "a", "l", "l", "o">>

\* a card whose text comes from two overlapping segments, in track order
TwoSegmentsCollected ==
    \E k \in 1..Len(cards) :
        /\ cards[k].de = HalloWeltHallo
        /\ Len(de_cues) = 2
        /\ \A s \in 1..2 : OverlapsMs(de_cues[s], it_cues[k], args.de_pad_ms)

Sorted(cues) == \A a, b \in 1..Len(cues) : a < b => cues[a].start <= cues[b].start

\* C10: for time-ordered tracks and max_lines >= 1, a pair has an empty
\* secondary text only if no secondary segment overlaps its padded window.
EmptyOnlyWithoutCandidate ==
    (Sorted(it_cues) /\ Sorted(de_cues) /\ args.de_max_lines >= 1) =>
        \A k \in 1..Len(cards) :
            cards[k].de = <<>> =>
                \A s \in 1..Len(de_cues) : ~OverlapsMs(de_cues[s], it_cues[k], args.de_pad_ms)

(***************************************************************************)
(* build_word_cards                                                        *)
(***************************************************************************)
DEFAULT_STOPWORDS_IT ==
    { <<"c", "h", "e">>, <<"e">>, <<"d", "i">>, <<"a">>, <<"d", "a">>, <<"i", "n">>,
      <<"u", "n">>, <<"u", "n", "a">>, <<"i", "l">>, <<"l", "o">>, <<"l", "a">>, <<"i">>,
      <<"g", "l", "i">>, <<"l", "e">>, <<"m", "i">>, <<"t", "i">>, <<"s", "i">>,
      <<"c", "i">>, <<"v", "i">>, <<"n", "o", "n">>, <<"p", "e", "r">>, <<"c", "o", "n">>,
      <<"s", "u">>, <<"m", "a">>, <<"o">>, <<"o", "r", "a">>, <<"p", "o", "i">>,
      <<"s", "o", "n", "o">>, <<"s", "e", "i">>, <<"e", "r", "a">>, <<"h", "a", "i">>,
      <<"h", "o">>, <<"h", "a">>, <<"a", "b", "b", "i", "a", "m", "o">>,
      <<"a", "v", "e", "t", "e">>, <<"h", "a", "n", "n", "o">>, <<"d", "e", "l">>,
      <<"d", "e", "l", "l", "a">>, <<"d", "e", "i">>, <<"d", "e", "l", "l", "e">>,
      <<"a", "l">>, <<"a", "l", "l", "o">>, <<"a", "l", "l", "a">>, <<"a", "i">>,
      <<"a", "g", "l", "i">>, <<"a", "l", "l", "e">>, <<"n", "e", "l">>,
      <<"n", "e", "l", "l", "o">>, <<"n", "e", "l", "l", "a">>, <<"n", "e", "i">>,
      <<"n", "e", "g", "l", "i">>, <<"n", "e", "l", "l", "e">>, <<"u", "n", "'">>,
      <<"l", "'">>, <<"d", "'">>, <<"c", "'">>, <<"m", "'">>, <<"t", "'">>, <<"s", "'">>,
      <<"e", "'">>, <<"U+00E8">> }

max_examples_per_token == 2

\* TOKEN_RE.findall(text) from position i on: the maximal runs of token characters
RECURSIVE FindTokens(_, _)
FindTokens(text, i) ==
    LET starts == {p \in i..Len(text) : IsTokenChar(text[p])}
    IN  IF starts = {} THEN <<>>
        ELSE LET b == Least(starts)
                 e == Least({q \in b..Len(text) : q = Len(text) \/ ~IsTokenChar(text[q + 1])})
             IN  <<SubSeq(text, b, e)>> \o FindTokens(text, e + 1)

\* t.lower().replace(curly apostrophe, "'")
Normalise(t) ==
    [k \in 1..Len(t) |-> IF LowerChar(t[k]) = CurlyApostrophe THEN "'" ELSE LowerChar(t[k])]

\* a variant that tests the stop words before lower-casing
SegmentTokensUnfolded(text, min_word_length, stopwords_it) ==
    LET found == SelectSeq(FindTokens(text, 1),
                           LAMBDA t : Len(t) >= min_word_length /\ t \notin stopwords_it)
    IN  [k \in 1..Len(found) |-> Normalise(found[k])]

\* the two list comprehensions: the normalised tokens, then those that are
\* long enough and no stop word
SegmentTokens(text, min_word_length, stopwords_it) ==
    LET found == FindTokens(text, 1)
    IN  SelectSeq([k \in 1..Len(found) |-> Normalise(found[k])],
                  LAMBDA t : Len(t) >= min_word_length /\ t \notin stopwords_it)

\* counter[token] += 1; a Counter keeps its keys in insertion order
CountToken(counter, token) ==
    IF \E k \in 1..Len(counter) : counter[k].token = token
    THEN [k \in 1..Len(counter) |->
             IF counter[k].token = token
             THEN [token |-> token, count |-> counter[k].count + 1]
             ELSE counter[k]]
    ELSE Append(counter, [token |-> token, count |-> 1])

\* chapter_token_counts[ch][token] += 1
CountInChapter(counts, ch, token) ==
    IF \E c \in 1..Len(counts) : counts[c].ch = ch
    THEN [c \in 1..Len(counts) |->
             IF counts[c].ch = ch
             THEN [ch |-> ch, counter |-> CountToken(counts[c].counter, token)]
             ELSE counts[c]]
    ELSE Append(counts, [ch |-> ch, counter |-> CountToken(<<>>, token)])

\* ex_list = chapter_examples[ch][token], appended to while it is short
AddExample(examples, ch, token, example) ==
    IF \E k \in 1..Len(examples) : examples[k].ch = ch /\ examples[k].token = token
    THEN [k \in 1..Len(examples) |->
             IF /\ examples[k].ch = ch
                /\ examples[k].token = token
                /\ Len(examples[k].list) < max_examples_per_token
             THEN [examples[k] EXCEPT !.list = Append(@, example)]
             ELSE examples[k]]
    ELSE Append(examples, [ch |-> ch, token |-> token,
                           list |-> IF 0 < max_examples_per_token
                                    THEN <<example>> ELSE <<>>])

\* the loop over the tokens of one segment, from the k-th token on
RECURSIVE TallyTokens(_, _, _, _, _, _)
TallyTokens(counts, examples, tokens, k, ch, example) ==
    IF k > Len(tokens) THEN [counts |-> counts, examples |-> examples]
    ELSE TallyTokens(CountInChapter(counts, ch, tokens[k]),
                     AddExample(examples, ch, tokens[k], example),
                     tokens, k + 1, ch, example)

\* one iteration of the loop over zip(it_entries, phrase_cards)
WordStep ==
    /\ pc = "words"
    /\ wi < Len(it_entries) /\ wi < Len(cards)
    /\ LET it == it_entries[wi + 1]
           phrase == cards[wi + 1]
           ch == chapter_id(it.start, args.chapter_minutes)
           tokens == SegmentTokens(it.text, args.min_word_length, DEFAULT_STOPWORDS_IT)
           example == [timestamp |-> hms(it.start), it |-> it.text, de |-> phrase.de]
           tally == TallyTokens(chapter_token_counts, chapter_examples, tokens, 1, ch, example)
       IN  /\ chapter_token_counts' = tally.counts
           /\ chapter_examples' = tally.examples
    /\ wi' = wi + 1
    /\ UNCHANGED <<pc, args, passes, blocks, entries, bi, it_cues, de_cues, it_entries,
                   de_entries, merged, current, mi, cards, de_index, idx, words>>

\* sorted(chapter_token_counts.items()): the chapters, ascending
SortedChapters(counts) ==
    [r \in 1..Len(counts) |->
        counts[CHOOSE c \in 1..Len(counts) :
                   Cardinality({x \in 1..Len(counts) : counts[x].ch < counts[c].ch}) = r - 1]]

\* counter.most_common(n): descending counts, equal counts in insertion order
most_common(counter, n) ==
    LET before(k) == {x \in 1..Len(counter) :
                         \/ counter[x].count > counter[k].count
                         \/ counter[x].count = counter[k].count /\ x < k}
        ranked == [r \in 1..Len(counter) |->
                      counter[CHOOSE k \in 1..Len(counter) : Cardinality(before(k)) = r - 1]]
    IN  SubSeq(ranked, 1, IF n < Len(counter) THEN n ELSE Len(counter))

ExamplesOf(examples, ch, token) ==
    examples[CHOOSE k \in 1..Len(examples) :
                 examples[k].ch = ch /\ examples[k].token = token].list

WordCard(ch, token, count, examples) ==
    [id |-> <<"w", "_", "c">> \o Decimal(ch) \o <<"_">> \o token,
     type |-> "word",
     chapterId |-> ch,
     it |-> token,
     de |-> <<>>,
     freq |-> count,
     examples |-> ExamplesOf(examples, ch, token),
     wordInfo |-> [pos |-> <<>>, lemma |-> <<>>, infinitive |-> <<>>],
     source |-> [it |-> "srt-derived", de |-> "manual/override-or-api-later"]]

\* the cards of the chapters from the c-th on
RECURSIVE ChapterCards(_, _, _, _)
ChapterCards(chapters, c, examples, max_words_per_chapter) ==
    IF c > Len(chapters) THEN <<>>
    ELSE LET top == most_common(chapters[c].counter, max_words_per_chapter)
         IN  [k \in 1..Len(top) |->
                 WordCard(chapters[c].ch, top[k].token, top[k].count, examples)]
             \o ChapterCards(chapters, c + 1, examples, max_words_per_chapter)

\* the second loop of build_word_cards, and its return
WordsReturn ==
    /\ pc = "words"
    /\ ~(wi < Len(it_entries) /\ wi < Len(cards))
    /\ words' = ChapterCards(SortedChapters(chapter_token_counts), 1, chapter_examples,
                             args.max_words_per_chapter)
    /\ pc' = "done"
    /\ UNCHANGED <<args, passes, blocks, entries, bi, it_cues, de_cues, it_entries,
                   de_entries, merged, current, mi, cards, de_index, idx,
                   chapter_token_counts, chapter_examples, wi>>

(***************************************************************************)
(* Runs of build_word_cards, on the cards build_phrase_cards makes         *)
(***************************************************************************)
MaxWordSegs == 3

\* texts with mixed case, stop words, elisions with both apostrophes, and a
\* repeated token; the last two start in the second minute
WordCues ==
    { Cue(1000, 2000, <<"C", "i", "a", "o", " ", "m", "o", "n", "d", "o">>),
      Cue(3000, 4000, <<"c", "i", "a", "o", " ", "d", "i", " ", "n", "u", "o", "v", "o">>),
      Cue(4500, 5000, <<"m", "o", "n", "d", "o", ",", " ", "c", "i", "a", "o", "!">>),
      Cue(61000, 62000, <<"C", "H", "E", " ", "b", "e", "l", "l", "o", ",", " ", "c", "h", "e", " ", "B", "E", "L", "L", "O">>),
      Cue(62500, 63000, <<"L", CurlyApostrophe, "a", "m", "i", "c", "o", " ", "U+00E8", " ", "q", "u", "i", ":", " ", "l", "'", "o", "r", "a">>) }
WordMinLengths == {1, 3}
WordMaxWords == {1, 80}
WordChapterMinutes == {1, 7}

InitWords ==
    /\ pc = "phrases"
    /\ \E len \in WordMinLengths, top \in WordMaxWords, minutes \in WordChapterMinutes :
           args = [NoArgs EXCEPT !.min_word_length = len, !.max_words_per_chapter = top,
                                 !.chapter_minutes = minutes]
    /\ \E n \in 0..MaxWordSegs : it_cues \in [1..n -> WordCues]
    /\ de_cues = <<Cue(900, 3500, HalloWelt)>>
    /\ it_entries = EntriesOf(it_cues)
    /\ de_entries = EntriesOf(de_cues)
    /\ IdleClean /\ IdleParse /\ IdleMerge /\ IdlePhrases /\ IdleWords

NextWords == PhraseStep \/ PhraseReturn \/ WordStep \/ WordsReturn
SpecWords == InitWords /\ [][NextWords]_vars

\* the tokens of length n that start at position p of a text: a maximal run of
\* letters and apostrophes
RunAt(text, p, n) ==
    /\ n >= 1
    /\ p + n - 1 <= Len(text)
    /\ \A q \in p..(p + n - 1) : IsTokenChar(text[q])
    /\ p = 1 \/ ~IsTokenChar(text[p - 1])
    /\ p + n - 1 = Len(text) \/ ~IsTokenChar(text[p + n])

\* the chapter a cue starts in, in exact milliseconds
ChapterOfCue(cue) == (cue.start \div (args.chapter_minutes * 60000)) + 1

\* the occurrences of a token, after lower-casing, in the primary segments that
\* start in a chapter
Occurrences(ch, token) ==
    UNION { {<<k, p>> : p \in {p \in 1..Len(it_cues[k].text) :
                                  /\ RunAt(it_cues[k].text, p, Len(token))
                                  /\ \A q \in 1..Len(token) :
                                         LowerChar(it_cues[k].text[p + q - 1]) = token[q]}} :
            k \in {k \in 1..Len(it_cues) : ChapterOfCue(it_cues[k]) = ch} }

\* C7: at most one word card per (chapter, token); each card's freq is the exact
\* number of occurrences of its token, after lower-casing, in the primary
\* segments that start in its chapter; no card's token is a stop word or shorter
\* than min_word_length.
WordCardsCountExactly ==
    pc = "done" =>
        /\ \A a, b \in 1..Len(words) :
               (words[a].chapterId = words[b].chapterId /\ words[a].it = words[b].it) => a = b
        /\ \A a \in 1..Len(words) :
               /\ words[a].it \notin DEFAULT_STOPWORDS_IT
               /\ Len(words[a].it) >= args.min_word_length
               /\ words[a].freq = Cardinality(Occurrences(words[a].chapterId, words[a].it))

\* cards of two chapters, one for a token met twice in different case, from
\* segments that also hold a stop word
WordsOfTwoChapters ==
    /\ pc = "done"
    /\ \E a, b \in 1..Len(words) :
           /\ words[a].it = <<"c", "i", "a", "o">> /\ words[a].freq = 2 /\ words[a].chapterId = 1
           /\ words[b].chapterId = 2
    /\ \E k \in 1..Len(it_cues) : it_cues[k].text = <<"c", "i", "a", "o", " ", "d", "i", " ", "n", "u", "o", "v", "o">>

(***************************************************************************)
(* Runs of main, from the parsed tracks to the two decks                   *)
(***************************************************************************)
MaxMainIt == 2
MaxMainDe == 1

\* cues around the ends of the first and of the second minute
MainItCues ==
    { Cue(59000, 59900, <<"c", "i", "a", "o", " ", "m", "o", "n", "d", "o">>),
      Cue(59999, 60500, <<"b", "e", "l", "l", "o">>),
      Cue(60000, 61000, <<"a", "m", "i", "c", "o">>),
      Cue(119999, 120100, <<"g", "r", "a", "n", "d", "e">>),
      Cue(120000, 121000, <<"f", "i", "n", "e">>) }
MainDeCues ==
    { Cue(59000, 60000, <<"h", "a", "l", "l", "o">>),
      Cue(60000, 61000, <<"w", "e", "l", "t">>),
      Cue(120000, 120500, <<"e", "n", "d", "e">>) }
MainMaxMinutes == {1, 2}
MainChapterMinutes == {1, 2}

InitMain ==
    /\ pc = "filter"
    /\ \E most \in MainMaxMinutes, minutes \in MainChapterMinutes, merge \in BOOLEAN :
           args = [NoArgs EXCEPT !.max_minutes = most, !.chapter_minutes = minutes,
                                 !.merge_it_adjacent = merge]
    /\ \E n \in 0..MaxMainIt : it_cues \in [1..n -> MainItCues]
    /\ \E n \in 0..MaxMainDe : de_cues \in [1..n -> MainDeCues]
    /\ it_entries = EntriesOf(it_cues)
    /\ de_entries = EntriesOf(de_cues)
    /\ IdleClean /\ IdleParse /\ IdleMerge /\ IdlePhrases /\ IdleWords

NextMain ==
    \/ Filter
    \/ MergeSkip
    \/ MergeBegin
    \/ MergeStep
    \/ MergeEnd
    \/ PhraseStep
    \/ PhraseReturn
    \/ WordStep
    \/ WordsReturn
SpecMain == InitMain /\ [][NextMain]_vars

\* ceil(maxMinutes / chapterMinutes)
LastChapter == (args.max_minutes + args.chapter_minutes - 1) \div args.chapter_minutes

\* the cues of a track that start before the end of the window
CuesInWindow(cues) == SelectSeq(cues, LAMBDA c : c.start < args.max_minutes * 60000)

\* C8: every chapter id of an output card is in 1..ceil(maxMinutes/chapterMinutes):
\* the segments that start at or after maxMinutes*60 leave both tracks before
\* merging and alignment, and a card's chapter is floor(start/(chapterMinutes*60))+1,
\* with merging enabled too.
ChapterIdsWithinWindow ==
    /\ pc = "merge" => it_entries = EntriesOf(CuesInWindow(it_cues))
    /\ pc # "filter" => de_entries = EntriesOf(CuesInWindow(de_cues))
    /\ \A k \in 1..Len(cards) :
           /\ cards[k].chapterId \in 1..LastChapter
           /\ \E c \in 1..Len(it_cues) :
                  /\ it_cues[c].start < args.max_minutes * 60000
                  /\ cards[k].start = EntryOf(it_cues[c]).start
                  /\ cards[k].chapterId = ChapterOfCue(it_cues[c])
    /\ \A k \in 1..Len(words) : words[k].chapterId \in 1..LastChapter

\* both decks are made, with merging enabled, from a primary track that had a
\* cue starting at the end of the window, and a card is in the last chapter
LateCueDropped ==
    /\ pc = "done"
    /\ args.merge_it_adjacent
    /\ \E c \in 1..Len(it_cues) : it_cues[c].start = args.max_minutes * 60000
    /\ \E k \in 1..Len(cards) : cards[k].chapterId = LastChapter
    /\ words # <<>>

====
